---- MODULE Spec2Model ----
(***************************************************************************)
(* HanDI: webcam hand gestures to MIDI control messages.                   *)
(*                                                                         *)
(* The specifications of this module:                                       *)
(*   Spec      HandTrackingThread.run against the GUI thread applying     *)
(*             gesture settings and closing (HandTrackingGUI.py), with the *)
(*             gesture classes and the MIDI transmitter of                 *)
(*             HandTrackingModule.py;                                      *)
(*   CamSpec   HandTrackingThread.run against the GUI thread changing the  *)
(*             camera and closing;                                         *)
(*   FairSpec, FairCamSpec  the same with weak fairness on the tracking    *)
(*             thread's steps;                                             *)
(*   SpecOpt   the producer/consumer variant (HandTrackingGUI_opt.py);     *)
(*   SpecEdge  BinaryGesture.update fed sequences of detector results;     *)
(*   SpecUnit  the evaluators and the MIDI sink methods called on          *)
(*             enumerated inputs;                                          *)
(*   SpecPinch pinch_func called on consecutive frames.                    *)
(* Variables a specification does not use keep their initial value.        *)
(***************************************************************************)
EXTENDS Integers, Sequences, FiniteSets

VARIABLES
    \* ---- HandTrackingThread (HandTrackingGUI.py) ----
    running,             \* self.running
    cap,                 \* self.cap: the handle the attribute refers to
    opened,              \* handles that are open (opened and not yet released)
    gesture_collection,  \* self.gesture_collection: the collection object it refers to
    colls,               \* the gestures (with their state) of each live collection object
    tpc,                 \* position of run()
    lmList,              \* run()'s lmList of the current iteration (of the last one
                         \* until the next frame is read)
    cur,                 \* the collection whose update() is executing (0: none)
    gi,                  \* position of update()'s for loop
    updated,             \* gesture.update calls begun in that iteration
    sinkCalls,           \* sink callbacks invoked in that iteration
    raisedBy,            \* what raised in that iteration: "detect", "evaluator", "sink"
                         \* ("none": nothing)
    emitted,             \* frame_signal.emit(frame) was reached in that iteration
    \* ---- MIDITransmiter ----
    connected,           \* self.connected (midi_out is None iff not connected)
    \* ---- GUI thread ----
    gpc,                 \* position of the GUI thread's current handler
    pendingSettings,     \* settings_list of the on_apply_gestures in progress
    collection,          \* on_apply_gestures' new collection, until it is installed
    feedback_labels,     \* keys of HandTrackingGUI.feedback_labels
    camChanges,          \* on_camera_changed events so far
    \* ---- producer/consumer variant (HandTrackingGUI_opt.py) ----
    frame_queue,         \* HandProcessingThread.frame_queue, oldest first
    ppc,                 \* position of add_frame
    pframe,              \* add_frame's argument
    captured,            \* frames captured so far
    pendingFrames,       \* frame_signal emissions not yet delivered to add_frame
    cpc,                 \* position of HandProcessingThread.run
    cframe,              \* run()'s local frame
    newerQueued,         \* frames left in the queue right after run()'s get()
    detected,            \* the last frame on which run() ran detection (0: none)
    kpc,                 \* position of FrameCaptureThread.run
    caprunning,          \* FrameCaptureThread.running
    capreleased,         \* FrameCaptureThread.cap has been released
    crunning,            \* HandProcessingThread.running
    opc,                 \* position of the variant's closeEvent
    \* ---- BinaryGesture fed a sequence (SpecEdge) ----
    old_state,           \* BinaryGesture.old_state
    fed,                 \* detector results fed so far
    fired,               \* indexes (from 0) of the updates that invoked on_trigger
    threw,               \* indexes (from 0) of the updates whose on_trigger raised
    \* ---- evaluators and sinks called on their own (SpecUnit) ----
    uHand,               \* parameters the landmark list was built from
    uLm,                 \* the landmark list
    uConnected,          \* the transmitter's connected flag
    uCall,               \* the last call and what it did
    \* ---- one Pinch binding read frame after frame (SpecPinch) ----
    pinchCalls           \* the last two calls of pinch_func: distance and result

threadVars == <<running, cap, opened, gesture_collection, colls, tpc, lmList, cur, gi,
                updated, sinkCalls, raisedBy, emitted, connected>>
guiVars == <<gpc, pendingSettings, collection, feedback_labels, camChanges>>
optVars == <<frame_queue, ppc, pframe, captured, pendingFrames, cpc, cframe,
             newerQueued, detected, kpc, caprunning, capreleased, crunning, opc>>
edgeVars == <<old_state, fed, fired, threw>>
unitVars == <<uHand, uLm, uConnected, uCall>>
pinchVars == <<pinchCalls>>
vars == <<threadVars, guiVars, optVars, edgeVars, unitVars, pinchVars>>

\* ---------------------------------------------------------------- bounds
MaxCamChanges == 1     \* camera combo changes
MaxFrames == 4         \* frames the capture thread produces
MaxSeq == 5            \* detector results fed to one BinaryGesture

\* ------------------------------------------------------ program constants
NumLandmarks == 21     \* len(self.lmList) < 21
MinArea == 250         \* area < 250
MaxArea == 30000       \* area > 30000
InterpLoArea == 500    \* np.interp(area, [500, 30000], [0, 1])
MinDist == 20          \* dist < 20
MaxDist == 220         \* dist > 220
MidiMax == 127         \* int(fraction * 127)
QueueMaxSize == 2      \* queue.Queue(maxsize=2)
ThumbTip == 4          \* findDistance(4, 8, ...)
IndexTip == 8
CCVolume == 7          \* cc_map
CCOctave == 15
CCModulation == 1

\* ------------------------------------------------------------- landmarks
\* A landmark is [id, x, y] (findPosition); here <<id, x, y>>, so pt[2] is x
\* and pt[3] is y.
X0 == 100
Y0 == 50

\* The landmark list of a hand with n points whose bounding box is w wide and
\* h high (from n = 4 on), the index tip dx right of and dy below the thumb tip.
LandmarkAt(i, w, h, dx, dy) ==
    IF i = ThumbTip THEN <<i, X0, Y0>>
    ELSE IF i = IndexTip THEN <<i, X0 + dx, Y0 + dy>>
    ELSE <<i, X0 + (IF i % 2 = 1 THEN w ELSE 0), Y0 + (IF i % 4 < 2 THEN h ELSE 0)>>

MakeHand(n, w, h, dx, dy) == [k \in 1..n |-> LandmarkAt(k - 1, w, h, dx, dy)]

\* Python's max() and min() of a non-empty list of numbers
Elements(s) == {s[k] : k \in 1..Len(s)}
max(s) == CHOOSE m \in Elements(s) : \A e \in Elements(s) : e <= m
min(s) == CHOOSE m \in Elements(s) : \A e \in Elements(s) : m <= e

\* floor of the square root
RECURSIVE SqrtBetween(_, _, _)
SqrtBetween(n, lo, hi) ==
    IF lo >= hi THEN lo
    ELSE LET mid == (lo + hi + 1) \div 2
         IN IF mid * mid <= n THEN SqrtBetween(n, mid, hi) ELSE SqrtBetween(n, lo, mid - 1)
ISqrt(n) == SqrtBetween(n, 0, 4000)

\* ------------------------------------------------------ evaluator results
\* What a detector function hands back: None, a bool, a float (num/den), or
\* an exception.
None == [tag |-> "none", b |-> FALSE, num |-> 0, den |-> 1]
Bool(v) == [tag |-> "bool", b |-> v, num |-> 0, den |-> 1]
Float(n, d) == [tag |-> "float", b |-> FALSE, num |-> n, den |-> d]
Raises == [tag |-> "raise", b |-> FALSE, num |-> 0, den |-> 1]

xs(lm) == [k \in 1..Len(lm) |-> lm[k][2]]
ys(lm) == [k \in 1..Len(lm) |-> lm[k][3]]

\* HandDetector.get_bounding_box_volume, with self.lmList = lm.
get_bounding_box_volume_unguarded(lm) ==
    IF lm = <<>> THEN Raises    \* max() of an empty list
    ELSE LET area == (max(xs(lm)) - min(xs(lm))) * (max(ys(lm)) - min(ys(lm)))
         IN IF area < MinArea \/ area > MaxArea THEN None
            ELSE IF area <= InterpLoArea THEN Float(0, MaxArea - InterpLoArea)
            ELSE Float(area - InterpLoArea, MaxArea - InterpLoArea)

get_bounding_box_volume(lm) ==
    IF lm = <<>> THEN None
    ELSE LET area == (max(xs(lm)) - min(xs(lm))) * (max(ys(lm)) - min(ys(lm)))
         IN IF area < MinArea \/ area > MaxArea THEN None
            ELSE IF area <= InterpLoArea THEN Float(0, MaxArea - InterpLoArea)
            ELSE Float(area - InterpLoArea, MaxArea - InterpLoArea)

\* HandDetector.is_fist, with self.lmList = lm; w < h * 0.5 is 2 * w < h.
is_fist_inclusive(lm) ==
    IF lm = <<>> \/ Len(lm) < NumLandmarks THEN FALSE
    ELSE LET w == max(xs(lm)) - min(xs(lm))
             h == max(ys(lm)) - min(ys(lm))
         IN 2 * w <= h

is_fist(lm) ==
    IF lm = <<>> \/ Len(lm) < NumLandmarks THEN FALSE
    ELSE LET w == max(xs(lm)) - min(xs(lm))
             h == max(ys(lm)) - min(ys(lm))
         IN 2 * w < h

\* HandDetector.is_victory, with self.lmList = lm: past the length test the
\* first expression evaluated is self.tipIds[1], and HandDetector.__init__
\* sets no attribute tipIds (nor does any other method): AttributeError.
is_victory(lm) ==
    IF lm = <<>> \/ Len(lm) < NumLandmarks THEN Bool(FALSE)
    ELSE Raises

\* HandDetector.is_thumbs_up, with self.lmList = lm: self.lmList[4] and
\* self.lmList[0] are read, then all(...) evaluates self.tipIds[1]:
\* AttributeError.
is_thumbs_up(lm) ==
    IF lm = <<>> \/ Len(lm) < NumLandmarks THEN Bool(FALSE)
    ELSE Raises

\* HandDetector.findDistance(p1, p2): the square of math.hypot(x2-x1, y2-y1).
findDistanceSquared(lm, p1, p2) ==
    LET dx == lm[p2 + 1][2] - lm[p1 + 1][2]
        dy == lm[p2 + 1][3] - lm[p1 + 1][3]
    IN dx * dx + dy * dy

\* pinch_func of on_apply_gestures. The distance is kept to a tenth of a pixel.
pinch_func(lm) ==
    IF Len(lm) < NumLandmarks THEN None
    ELSE LET d2 == findDistanceSquared(lm, ThumbTip, IndexTip)
         IN IF d2 < MinDist * MinDist \/ d2 > MaxDist * MaxDist THEN None
            ELSE Float(ISqrt(d2 * 100) - MinDist * 10, (MaxDist - MinDist) * 10)

\* fist_bool of on_apply_gestures.
fist_bool(lm) == Bool(is_fist(lm))

\* bounding_box_func of on_apply_gestures.
bounding_box_func(lm) == get_bounding_box_volume(lm)

\* ------------------------------------------------------------ MIDI sink
\* What one call of a sink method did: the messages it sent, and whether it
\* raised. dev is what midi_out.send does on an open port: "ok" or "fail".
Message(type, control, channel, value) ==
    [type |-> type, control |-> control, channel |-> channel, value |-> value]
\* for ch in range(16): for note in range(128): note_off
AllNotesOff == Message("note_off_all", -1, -1, 0)
Quiet == [msgs |-> <<>>, raised |-> FALSE]
Raised == [msgs |-> <<>>, raised |-> TRUE]
Sent(m) == [msgs |-> <<m>>, raised |-> FALSE]

\* int(fraction * 127)
ToMidi(fraction) == (fraction.num * MidiMax) \div fraction.den

\* MIDITransmiter.send_stop
send_stop(conn, dev) ==
    IF ~conn THEN Quiet
    ELSE IF dev = "fail" THEN Raised
    ELSE Sent(AllNotesOff)

\* MIDITransmiter.send_volume
send_volume(conn, fraction, channel, dev) ==
    IF ~conn THEN Quiet
    ELSE IF dev = "fail" THEN Raised
    ELSE Sent(Message("control_change", CCVolume, channel, ToMidi(fraction)))

\* MIDITransmiter.send_octave: no connected check, so midi_out (None) is used.
send_octave(conn, fraction, channel, dev) ==
    IF ~conn THEN Raised
    ELSE IF dev = "fail" THEN Raised
    ELSE Sent(Message("control_change", CCOctave, channel, ToMidi(fraction)))

\* MIDITransmiter.send_modulation: no connected check either.
send_modulation(conn, fraction, channel, dev) ==
    IF ~conn THEN Raised
    ELSE IF dev = "fail" THEN Raised
    ELSE Sent(Message("control_change", CCModulation, channel, ToMidi(fraction)))

\* MIDITransmiter.send_cc
send_cc(conn, fraction, control, channel, dev) ==
    IF ~conn THEN Quiet
    ELSE IF dev = "fail" THEN Raised
    ELSE Sent(Message("control_change", control, channel, ToMidi(fraction)))

\* MIDITransmiter.send_fist
send_fist(conn, dev) ==
    IF ~conn THEN Quiet
    ELSE send_stop(conn, dev)

\* ------------------------------------------------------- gesture classes
\* A gesture object whose BinaryGesture.__init__ starts with old_state True.
Gesture_latched(name, param, channel) ==
    [name |-> name, param |-> param, channel |-> channel, old_state |-> TRUE]

\* A gesture object of a collection: the binding's settings and, for a
\* BinaryGesture, its old_state.
Gesture(name, param, channel) ==
    [name |-> name, param |-> param, channel |-> channel, old_state |-> FALSE]
FeedbackKey(g) == <<g.name, g.param, g.channel>>
cc_map(param) == IF param = "Volume" THEN CCVolume
                 ELSE IF param = "Octave" THEN CCOctave
                 ELSE CCModulation

\* bounding_box_callback / pinch_callback: midi.send_cc, then the label's
\* setText, a KeyError when the key is not in feedback_labels.
continuous_callback(value, g, conn, dev, labels) ==
    LET r == send_cc(conn, value, cc_map(g.param), g.channel, dev)
    IN IF r.raised THEN r
       ELSE IF FeedbackKey(g) \notin labels THEN [msgs |-> r.msgs, raised |-> TRUE]
       ELSE r

\* fist_trigger: midi.send_fist()
fist_trigger(conn, dev) == send_fist(conn, dev)

\* What one gesture.update(lmList) did: the detector's result, whether the sink
\* was invoked, what the sink did, and the gesture's old_state afterwards.
Updated(value, called, sink, old) ==
    [value |-> value, called |-> called, msgs |-> sink.msgs,
     raised |-> sink.raised, old_state |-> old]

\* BinaryGesture.update with a trigger invoked on every frame the gesture is
\* seen (no old_state test).
BinaryGesture_update_level(old, current_state, trigger) ==
    IF current_state
    THEN Updated(Bool(current_state), TRUE, trigger,
                 IF trigger.raised THEN old ELSE current_state)
    ELSE Updated(Bool(current_state), FALSE, Quiet, current_state)

\* BinaryGesture.update with self.old_state = current_state moved before the
\* call of on_trigger, so that the edge is latched even when the trigger
\* raises.
BinaryGesture_update_latch_first(old, current_state, trigger) ==
    IF current_state /\ ~old
    THEN Updated(Bool(current_state), TRUE, trigger, current_state)
    ELSE Updated(Bool(current_state), FALSE, Quiet, current_state)

\* BinaryGesture.update: old is self.old_state, current_state the detector's
\* result, trigger what on_trigger() does when invoked.
BinaryGesture_update(old, current_state, trigger) ==
    IF current_state /\ ~old
    THEN Updated(Bool(current_state), TRUE, trigger,
                 IF trigger.raised THEN old ELSE current_state)
    ELSE Updated(Bool(current_state), FALSE, Quiet, current_state)

\* ContinuousGesture.update with `if value:` for `if value is not None:`, so
\* that the value 0.0 is not dispatched either.
ContinuousGesture_update_truthy(value, on_value) ==
    IF value.tag = "raise" THEN Updated(value, FALSE, Raised, FALSE)
    ELSE IF value.tag # "none" /\ value.num # 0 THEN Updated(value, TRUE, on_value, FALSE)
    ELSE Updated(value, FALSE, Quiet, FALSE)

\* ContinuousGesture.update: value the detector's result, on_value what the
\* callback does when invoked.
ContinuousGesture_update(value, on_value) ==
    IF value.tag = "raise" THEN Updated(value, FALSE, Raised, FALSE)
    ELSE IF value.tag # "none" THEN Updated(value, TRUE, on_value, FALSE)
    ELSE Updated(value, FALSE, Quiet, FALSE)

\* gesture.update(lmList) for a gesture object built by on_apply_gestures.
GestureUpdate(g, lm, conn, dev, labels) ==
    IF g.name = "Bounding Box"
    THEN LET v == bounding_box_func(lm)
         IN ContinuousGesture_update(v, continuous_callback(v, g, conn, dev, labels))
    ELSE IF g.name = "Pinch"
    THEN LET v == pinch_func(lm)
         IN ContinuousGesture_update(v, continuous_callback(v, g, conn, dev, labels))
    ELSE BinaryGesture_update(g.old_state, fist_bool(lm).b, fist_trigger(conn, dev))

\* -------------------------------------------------------------- settings
\* A row of the settings widget (GestureSettingRow.get_settings).
Row(gesture, active, midi_param, channel) ==
    [gesture |-> gesture, active |-> active, midi_param |-> midi_param,
     channel |-> channel]

\* The settings lists the user applies: all three gestures bound, and a list
\* with an inactive row (whose parameter and channel no active row has).
SettingsChoices ==
    { <<Row("Bounding Box", TRUE, "Volume", 0), Row("Pinch", TRUE, "Modulation", 1),
        Row("Fist", TRUE, "None", 0)>>,
      <<Row("Bounding Box", FALSE, "Octave", 2), Row("Fist", TRUE, "None", 0)>> }

\* on_apply_gestures' loop without its test of s["active"].
RECURSIVE new_gestures_all(_)
new_gestures_all(settings_list) ==
    IF settings_list = <<>> THEN <<>>
    ELSE LET s == Head(settings_list)
         IN <<Gesture(s.gesture, s.midi_param, s.channel)>>
            \o new_gestures_all(Tail(settings_list))

\* on_apply_gestures' loop: new_gestures, one gesture object per active row.
RECURSIVE new_gestures(_)
new_gestures(settings_list) ==
    IF settings_list = <<>> THEN <<>>
    ELSE LET s == Head(settings_list)
         IN (IF s.active THEN <<Gesture(s.gesture, s.midi_param, s.channel)>> ELSE <<>>)
            \o new_gestures(Tail(settings_list))

\* The feedback labels the loop creates: one per active continuous row.
LabelsOf(gestures) ==
    {FeedbackKey(gestures[k]) : k \in {j \in 1..Len(gestures) : gestures[j].name # "Fist"}}

\* A finger is up when its tip is above the joint two below it (smaller y),
\* folded when the tip is below it (fingersUp, is_victory, is_thumbs_up).
TipAbove(lm, tip) == lm[tip + 1][3] < lm[tip - 1][3]
TipBelow(lm, tip) == lm[tip + 1][3] > lm[tip - 1][3]

\* The landmark list lm with the fingers of these tips stretched: the tip
\* takes the height of its joint two below, and the joint that of the tip.
Extended(lm, tips) ==
    [k \in 1..Len(lm) |->
        IF (k - 1) \in tips THEN <<lm[k][1], lm[k][2], lm[k - 2][3]>>
        ELSE IF (k + 1) \in tips THEN <<lm[k][1], lm[k][2], lm[k + 2][3]>>
        ELSE lm[k]]

\* The landmark lists findPosition yields: none, a closed hand (fingers
\* folded), an open hand (fingers stretched, pinky included).
FistHand == MakeHand(NumLandmarks, 40, 100, 30, 40)
OpenHand == Extended(MakeHand(NumLandmarks, 160, 100, 120, 50), {8, 12, 16, 20})
ThreadHands == {<<>>, FistHand, OpenHand}

\* ------------------------------------------------- idle initial values
InitThreadIdle ==
    /\ running = FALSE /\ cap = 0 /\ opened = {} /\ gesture_collection = 1
    /\ colls = [c \in 1..3 |-> <<>>] /\ tpc = "done" /\ lmList = <<>> /\ cur = 0
    /\ gi = 0 /\ updated = <<>> /\ sinkCalls = <<>>
    /\ raisedBy = "none" /\ emitted = FALSE /\ connected = FALSE
InitGuiIdle ==
    /\ gpc = "closed" /\ pendingSettings = <<>> /\ collection = 0
    /\ feedback_labels = {} /\ camChanges = 0
InitOptIdle ==
    /\ frame_queue = <<>> /\ ppc = "off" /\ pframe = 0 /\ captured = 0
    /\ pendingFrames = <<>> /\ cpc = "off" /\ cframe = 0 /\ newerQueued = 0
    /\ detected = 0 /\ kpc = "off" /\ caprunning = FALSE /\ capreleased = FALSE
    /\ crunning = FALSE /\ opc = "off"
InitEdgeIdle == old_state = FALSE /\ fed = <<>> /\ fired = <<>> /\ threw = <<>>
InitUnitIdle ==
    /\ uHand = <<0, 0, 0>> /\ uLm = <<>> /\ uConnected = FALSE
    /\ uCall = [fn |-> "none", value |-> None, called |-> FALSE, msgs |-> <<>>,
               raised |-> FALSE]
InitPinchIdle == pinchCalls = <<>>

\* ======================================================================
\* HandTrackingThread and the GUI thread (HandTrackingGUI.py)
\* ======================================================================
\* Camera handles. A released handle nothing refers to is reused for the next
\* cv2.VideoCapture; every camera change can leave one handle open for good.
Handles == 1..(MaxCamChanges + 2)
FreshHandles == {h \in Handles : h \notin opened /\ h # cap}
FreshHandle == CHOOSE h \in FreshHandles : \A k \in FreshHandles : h <= k

\* Collection objects. At most three are alive: the installed one, the one
\* whose update() is executing, and the one on_apply_gestures is building; an
\* object nothing refers to is collected (its slot emptied and reused).
Slots == 1..3
FreeSlots == {c \in Slots : c # gesture_collection /\ c # cur /\ c # collection}
FreeSlot == CHOOSE c \in FreeSlots : \A k \in FreeSlots : c <= k

\* HandTrackingThread.__init__ (init_camera included) and
\* HandTrackingGUI.__init__: the thread is started, no gesture is bound.
InitThread ==
    /\ running = TRUE
    /\ cap = 1
    /\ opened \in {{1}, {}}            \* isOpened() or not
    /\ gesture_collection = 1
    /\ colls = [c \in Slots |-> <<>>]  \* GestureCollection([])
    /\ tpc = "top"
    /\ lmList = <<>> /\ cur = 0 /\ gi = 0
    /\ updated = <<>> /\ sinkCalls = <<>>
    /\ raisedBy = "none" /\ emitted = FALSE
    /\ connected \in BOOLEAN           \* MIDITransmiter.connect() found the port or not
InitGui ==
    /\ gpc = "idle" /\ pendingSettings = <<>> /\ collection = 0
    /\ feedback_labels = {} /\ camChanges = 0

Init == InitThread /\ InitGui /\ InitOptIdle /\ InitEdgeIdle /\ InitUnitIdle /\ InitPinchIdle

\* init_camera, first half: if self.cap: self.cap.release()
init_camera_release == opened' = opened \ {cap}
\* init_camera, second half: self.cap = cv2.VideoCapture(self.camera_index)
init_camera_open ==
    /\ FreshHandles # {}
    /\ \E isOpened \in BOOLEAN :
         /\ cap' = FreshHandle
         /\ opened' = IF isOpened THEN opened \cup {FreshHandle} ELSE opened

\* while self.running: (the stop flag is read here and nowhere else)
RunTop ==
    /\ tpc = "top"
    /\ tpc' = IF running THEN "read" ELSE "final"
    /\ UNCHANGED <<running, cap, opened, gesture_collection, colls, lmList, cur, gi,
                   updated, sinkCalls, raisedBy, emitted, connected,
                   guiVars, optVars, edgeVars, unitVars, pinchVars>>

\* success, frame = self.cap.read(): a released or unopened handle yields no
\* frame. A new iteration's record begins here.
RunRead ==
    /\ tpc = "read"
    /\ \E success \in (IF cap \in opened THEN BOOLEAN ELSE {FALSE}) :
         tpc' = IF success THEN "detect" ELSE "reinit"
    /\ lmList' = <<>> /\ updated' = <<>> /\ sinkCalls' = <<>> /\ raisedBy' = "none"
    /\ emitted' = FALSE
    /\ UNCHANGED <<running, cap, opened, gesture_collection, colls, cur, gi, connected,
                   guiVars, optVars, edgeVars, unitVars, pinchVars>>

\* if not success: print; self.init_camera() (first half)
RunReinit ==
    /\ tpc = "reinit"
    /\ init_camera_release
    /\ tpc' = "init_open"
    /\ UNCHANGED <<running, cap, gesture_collection, colls, lmList, cur, gi,
                   updated, sinkCalls, raisedBy, emitted, connected,
                   guiVars, optVars, edgeVars, unitVars, pinchVars>>

\* init_camera (second half), then continue / the next iteration
RunInitCameraOpen ==
    /\ tpc = "init_open"
    /\ init_camera_open
    /\ tpc' = "top"
    /\ UNCHANGED <<running, gesture_collection, colls, lmList, cur, gi,
                   updated, sinkCalls, raisedBy, emitted, connected,
                   guiVars, optVars, edgeVars, unitVars, pinchVars>>

\* cv2.flip, findHands, findPosition, findDistance: the frame's landmark list,
\* or an exception of the detector.
RunDetect ==
    /\ tpc = "detect"
    /\ \/ \E lm \in ThreadHands : lmList' = lm /\ tpc' = "call_update"
                                  /\ UNCHANGED raisedBy
       \/ lmList' = lmList /\ tpc' = "except" /\ raisedBy' = "detect"
    /\ UNCHANGED <<running, cap, opened, gesture_collection, colls, cur, gi,
                   updated, sinkCalls, emitted, connected,
                   guiVars, optVars, edgeVars, unitVars, pinchVars>>

\* self.gesture_collection.update(lmList): the attribute is read once, and
\* update() runs on the collection object it referred to.
RunCollectionUpdate ==
    /\ tpc = "call_update"
    /\ cur' = gesture_collection
    /\ gi' = 1
    /\ tpc' = "update"
    /\ UNCHANGED <<running, cap, opened, gesture_collection, colls, lmList,
                   updated, sinkCalls, raisedBy, emitted, connected,
                   guiVars, optVars, edgeVars, unitVars, pinchVars>>

\* update() is left: run() drops its reference, and a collection nothing else
\* refers to is collected.
Release(cs, c) ==
    IF c # gesture_collection /\ c # collection THEN [cs EXCEPT ![c] = <<>>] ELSE cs

\* for gesture in self.gestures: gesture.update(lmList); an exception leaves
\* the loop and update(), and is caught in run().
GestureCollection_update ==
    /\ tpc = "update"
    /\ gi <= Len(colls[cur])
    /\ \E dev \in {"ok", "fail"} :
       \E r \in {GestureUpdate(colls[cur][gi], lmList, connected, dev, feedback_labels)} :
       \E cs \in {[colls EXCEPT ![cur][gi].old_state = r.old_state]} :
            /\ updated' = Append(updated, [coll |-> cur, idx |-> gi, value |-> r.value,
                                           raised |-> r.raised])
            /\ sinkCalls' = IF r.called
                            THEN Append(sinkCalls, [coll |-> cur, idx |-> gi,
                                                    msgs |-> r.msgs, raised |-> r.raised])
                            ELSE sinkCalls
            /\ IF r.raised
               THEN /\ tpc' = "except" /\ gi' = gi /\ cur' = cur /\ colls' = cs
                    /\ raisedBy' = IF r.called THEN "sink" ELSE "evaluator"
               ELSE /\ tpc' = "update" /\ gi' = gi + 1 /\ cur' = cur /\ colls' = cs
                    /\ UNCHANGED raisedBy
    /\ UNCHANGED <<running, cap, opened, gesture_collection, lmList,
                   emitted, connected, guiVars, optVars, edgeVars, unitVars, pinchVars>>

\* update() returned: self.frame_signal.emit(frame)
RunEmit ==
    /\ tpc = "update"
    /\ gi > Len(colls[cur])
    /\ emitted' = TRUE
    /\ tpc' = "top"
    /\ cur' = 0 /\ gi' = 0
    /\ colls' = Release(colls, cur)
    /\ UNCHANGED <<running, cap, opened, gesture_collection, lmList,
                   updated, sinkCalls, raisedBy, connected,
                   guiVars, optVars, edgeVars, unitVars, pinchVars>>

\* except Exception as e: the handler ends the thread (as if it re-raised).
RunExceptReraise ==
    /\ tpc = "except"
    /\ tpc' = "done"
    /\ cur' = 0 /\ gi' = 0
    /\ colls' = IF cur = 0 THEN colls ELSE Release(colls, cur)
    /\ UNCHANGED <<running, cap, opened, gesture_collection, lmList,
                   updated, sinkCalls, raisedBy, emitted, connected,
                   guiVars, optVars, edgeVars, unitVars, pinchVars>>

\* except Exception as e: print; self.init_camera() (first half)
RunExcept ==
    /\ tpc = "except"
    /\ init_camera_release
    /\ tpc' = "init_open"
    /\ cur' = 0 /\ gi' = 0
    /\ colls' = IF cur = 0 THEN colls ELSE Release(colls, cur)
    /\ UNCHANGED <<running, cap, gesture_collection, lmList,
                   updated, sinkCalls, raisedBy, emitted, connected,
                   guiVars, optVars, edgeVars, unitVars, pinchVars>>

\* after the loop, run() returns without releasing the camera.
RunFinalNoRelease ==
    /\ tpc = "final"
    /\ tpc' = "done"
    /\ UNCHANGED <<running, cap, opened, gesture_collection, colls, lmList, cur, gi,
                   updated, sinkCalls, raisedBy, emitted, connected,
                   guiVars, optVars, edgeVars, unitVars, pinchVars>>

\* after the loop: self.cap.release(); run() returns
RunFinal ==
    /\ tpc = "final"
    /\ opened' = opened \ {cap}
    /\ tpc' = "done"
    /\ UNCHANGED <<running, cap, gesture_collection, colls, lmList, cur, gi,
                   updated, sinkCalls, raisedBy, emitted, connected,
                   guiVars, optVars, edgeVars, unitVars, pinchVars>>

\* ---- GUI thread: one handler at a time ----
\* on_apply_gestures, up to self.feedback_labels = {}
OnApplyGestures ==
    /\ gpc = "idle"
    /\ \E settings_list \in SettingsChoices : pendingSettings' = settings_list
    /\ feedback_labels' = {}
    /\ gpc' = "apply_build"
    /\ UNCHANGED <<threadVars, collection, camChanges, optVars, edgeVars, unitVars, pinchVars>>

\* on_apply_gestures' loop over settings_list and GestureCollection(new_gestures)
ApplyBuild ==
    /\ gpc = "apply_build"
    /\ collection' = FreeSlot
    /\ colls' = [colls EXCEPT ![FreeSlot] = new_gestures(pendingSettings)]
    /\ feedback_labels' = LabelsOf(new_gestures(pendingSettings))
    /\ pendingSettings' = <<>>
    /\ gpc' = "apply_set"
    /\ UNCHANGED <<running, cap, opened, gesture_collection, tpc, lmList, cur, gi,
                   updated, sinkCalls, raisedBy, emitted, connected,
                   camChanges, optVars, edgeVars, unitVars, pinchVars>>

\* HandTrackingThread.set_gesture_collection; the collection it replaces is
\* collected unless update() is executing on it.
set_gesture_collection ==
    /\ gpc = "apply_set"
    /\ gesture_collection' = collection
    /\ collection' = 0
    /\ colls' = IF gesture_collection # cur
                THEN [colls EXCEPT ![gesture_collection] = <<>>] ELSE colls
    /\ gpc' = "idle"
    /\ UNCHANGED <<running, cap, opened, tpc, lmList, cur, gi,
                   updated, sinkCalls, raisedBy, emitted, connected,
                   pendingSettings, feedback_labels, camChanges,
                   optVars, edgeVars, unitVars, pinchVars>>

\* on_camera_changed -> update_camera_index -> init_camera (first half)
update_camera_index ==
    /\ gpc = "idle"
    /\ camChanges < MaxCamChanges
    /\ camChanges' = camChanges + 1
    /\ init_camera_release
    /\ gpc' = "init_open"
    /\ UNCHANGED <<running, cap, gesture_collection, colls, tpc, lmList, cur, gi,
                   updated, sinkCalls, raisedBy, emitted, connected,
                   pendingSettings, collection, feedback_labels,
                   optVars, edgeVars, unitVars, pinchVars>>

\* init_camera (second half) on the GUI thread
GuiInitCameraOpen ==
    /\ gpc = "init_open"
    /\ init_camera_open
    /\ gpc' = "idle"
    /\ UNCHANGED <<running, gesture_collection, colls, tpc, lmList, cur, gi,
                   updated, sinkCalls, raisedBy, emitted, connected,
                   pendingSettings, collection, feedback_labels, camChanges,
                   optVars, edgeVars, unitVars, pinchVars>>

\* HandTrackingThread.stop
stop == running' = FALSE

\* closeEvent: self.hand_tracking_thread.stop(), then wait()
closeEvent ==
    /\ gpc = "idle"
    /\ stop
    /\ gpc' = "wait"
    /\ UNCHANGED <<cap, opened, gesture_collection, colls, tpc, lmList, cur, gi,
                   updated, sinkCalls, raisedBy, emitted, connected,
                   pendingSettings, collection, feedback_labels, camChanges,
                   optVars, edgeVars, unitVars, pinchVars>>

\* wait() returns once run() has returned; event.accept()
CloseWaitDone ==
    /\ gpc = "wait"
    /\ tpc = "done"
    /\ gpc' = "closed"
    /\ UNCHANGED <<threadVars, pendingSettings, collection, feedback_labels,
                   camChanges, optVars, edgeVars, unitVars, pinchVars>>

ThreadStep ==
    \/ RunTop \/ RunRead \/ RunReinit \/ RunInitCameraOpen \/ RunDetect
    \/ RunCollectionUpdate \/ GestureCollection_update \/ RunEmit \/ RunExcept
    \/ RunFinal

Next ==
    \/ ThreadStep
    \/ OnApplyGestures \/ ApplyBuild \/ set_gesture_collection
    \/ closeEvent \/ CloseWaitDone

Spec == Init /\ [][Next]_vars

\* No gesture is bound while only the camera is changed: the collection is
\* GestureCollection([]) and the loop body of its update never runs.
CamNext ==
    \/ RunTop \/ RunRead \/ RunReinit \/ RunInitCameraOpen \/ RunDetect
    \/ RunCollectionUpdate \/ RunEmit \/ RunExcept \/ RunFinal
    \/ update_camera_index \/ GuiInitCameraOpen
    \/ closeEvent \/ CloseWaitDone

CamSpec == Init /\ [][CamNext]_vars

\* The tracking thread is an OS thread: it is scheduled again and again.
FairSpec == Spec /\ WF_vars(ThreadStep)
FairCamSpec == CamSpec /\ WF_vars(ThreadStep)

\* ======================================================================
\* SpecOpt: the producer/consumer variant (HandTrackingGUI_opt.py)
\* ======================================================================
\* Frames are numbered in the order they are captured.
InitOpt ==
    /\ frame_queue = <<>>              \* queue.Queue(maxsize=2)
    /\ ppc = "idle" /\ pframe = 0
    /\ captured = 0 /\ pendingFrames = <<>>
    /\ cpc = "top" /\ cframe = 0 /\ newerQueued = 0 /\ detected = 0
    /\ kpc = "top" /\ caprunning = TRUE /\ capreleased = FALSE
    /\ crunning = TRUE /\ opc = "idle"

\* queue.Queue: full(), empty(), qsize()
full(q) == Len(q) >= QueueMaxSize
empty(q) == Len(q) = 0
qsize(q) == Len(q)

\* FrameCaptureThread.run: while self.running
CaptureTop ==
    /\ kpc = "top"
    /\ kpc' = IF caprunning THEN "read" ELSE "done"
    /\ UNCHANGED <<frame_queue, ppc, pframe, captured, pendingFrames, cpc, cframe,
                   newerQueued, detected, caprunning, capreleased, crunning, opc,
                   threadVars, guiVars, edgeVars, unitVars, pinchVars>>

\* success, frame = self.cap.read(); if success: flip, self.frame_signal.emit(frame)
\* (the emission is queued for the thread the processing object lives in)
CaptureRead ==
    /\ kpc = "read"
    /\ \E success \in (IF capreleased \/ captured >= MaxFrames THEN {FALSE} ELSE BOOLEAN) :
         IF success
         THEN /\ captured' = captured + 1
              /\ pendingFrames' = Append(pendingFrames, captured + 1)
         ELSE UNCHANGED <<captured, pendingFrames>>
    /\ kpc' = "top"
    /\ UNCHANGED <<frame_queue, ppc, pframe, cpc, cframe, newerQueued, detected,
                   caprunning, capreleased, crunning, opc,
                   threadVars, guiVars, edgeVars, unitVars, pinchVars>>

\* add_frame is entered with the next emitted frame
add_frame ==
    /\ ppc = "idle"
    /\ opc = "idle"
    /\ pendingFrames # <<>>
    /\ pframe' = Head(pendingFrames)
    /\ pendingFrames' = Tail(pendingFrames)
    /\ ppc' = "full"
    /\ UNCHANGED <<frame_queue, captured, cpc, cframe, newerQueued, detected,
                   kpc, caprunning, capreleased, crunning, opc,
                   threadVars, guiVars, edgeVars, unitVars, pinchVars>>

\* if self.frame_queue.full():
AddFrameFull ==
    /\ ppc = "full"
    /\ ppc' = IF full(frame_queue) THEN "get" ELSE "put"
    /\ UNCHANGED <<frame_queue, pframe, captured, pendingFrames, cpc, cframe,
                   newerQueued, detected, kpc, caprunning, capreleased, crunning, opc,
                   threadVars, guiVars, edgeVars, unitVars, pinchVars>>

\* add_frame's get() taking the newest queued frame out instead of the oldest.
AddFrameGetNewest ==
    /\ ppc = "get"
    /\ ~empty(frame_queue)
    /\ frame_queue' = SubSeq(frame_queue, 1, Len(frame_queue) - 1)
    /\ ppc' = "put"
    /\ UNCHANGED <<pframe, captured, pendingFrames, cpc, cframe,
                   newerQueued, detected, kpc, caprunning, capreleased, crunning, opc,
                   threadVars, guiVars, edgeVars, unitVars, pinchVars>>

\* self.frame_queue.get(): waits while the queue is empty
AddFrameGet ==
    /\ ppc = "get"
    /\ ~empty(frame_queue)
    /\ frame_queue' = Tail(frame_queue)
    /\ ppc' = "put"
    /\ UNCHANGED <<pframe, captured, pendingFrames, cpc, cframe,
                   newerQueued, detected, kpc, caprunning, capreleased, crunning, opc,
                   threadVars, guiVars, edgeVars, unitVars, pinchVars>>

\* self.frame_queue.put(frame): waits while the queue is full
AddFramePut ==
    /\ ppc = "put"
    /\ ~full(frame_queue)
    /\ frame_queue' = Append(frame_queue, pframe)
    /\ ppc' = "idle"
    /\ UNCHANGED <<pframe, captured, pendingFrames, cpc, cframe,
                   newerQueued, detected, kpc, caprunning, capreleased, crunning, opc,
                   threadVars, guiVars, edgeVars, unitVars, pinchVars>>

\* HandProcessingThread.run: while self.running
ProcessTop ==
    /\ cpc = "top"
    /\ cpc' = IF crunning THEN "empty" ELSE "done"
    /\ UNCHANGED <<frame_queue, ppc, pframe, captured, pendingFrames, cframe,
                   newerQueued, detected, kpc, caprunning, capreleased, crunning, opc,
                   threadVars, guiVars, edgeVars, unitVars, pinchVars>>

\* if not self.frame_queue.empty():
ProcessEmpty ==
    /\ cpc = "empty"
    /\ cpc' = IF ~empty(frame_queue) THEN "get" ELSE "top"
    /\ UNCHANGED <<frame_queue, ppc, pframe, captured, pendingFrames, cframe,
                   newerQueued, detected, kpc, caprunning, capreleased, crunning, opc,
                   threadVars, guiVars, edgeVars, unitVars, pinchVars>>

\* The frame get() hands out: queue.Queue is first in, first out.
GetFrame(q) == Head(q)
\* The queue after get().
GetRest(q) == Tail(q)

\* frame = self.frame_queue.get(): waits while the queue is empty
ProcessGet ==
    /\ cpc = "get"
    /\ ~empty(frame_queue)
    /\ cframe' = GetFrame(frame_queue)
    /\ frame_queue' = GetRest(frame_queue)
    /\ newerQueued' = Cardinality({k \in 1..Len(frame_queue) :
                                     frame_queue[k] > GetFrame(frame_queue)})
    /\ cpc' = "qsize"
    /\ UNCHANGED <<ppc, pframe, captured, pendingFrames, detected,
                   kpc, caprunning, capreleased, crunning, opc,
                   threadVars, guiVars, edgeVars, unitVars, pinchVars>>

\* if self.frame_queue.qsize() < 2:
ProcessQsize ==
    /\ cpc = "qsize"
    /\ cpc' = IF qsize(frame_queue) < QueueMaxSize THEN "detect" ELSE "emit"
    /\ UNCHANGED <<frame_queue, ppc, pframe, captured, pendingFrames, cframe,
                   newerQueued, detected, kpc, caprunning, capreleased, crunning, opc,
                   threadVars, guiVars, edgeVars, unitVars, pinchVars>>

\* findHands, findPosition, the volume signal
ProcessDetect ==
    /\ cpc = "detect"
    /\ detected' = cframe
    /\ cpc' = "emit"
    /\ UNCHANGED <<frame_queue, ppc, pframe, captured, pendingFrames, cframe,
                   newerQueued, kpc, caprunning, capreleased, crunning, opc,
                   threadVars, guiVars, edgeVars, unitVars, pinchVars>>

\* self.processed_frame_signal.emit(frame)
ProcessEmit ==
    /\ cpc = "emit"
    /\ cpc' = "top"
    /\ UNCHANGED <<frame_queue, ppc, pframe, captured, pendingFrames, cframe,
                   newerQueued, detected, kpc, caprunning, capreleased, crunning, opc,
                   threadVars, guiVars, edgeVars, unitVars, pinchVars>>

\* closeEvent: capture_thread.stop() is self.running = False ...
OptCloseStop ==
    /\ opc = "idle"
    /\ ppc = "idle"
    /\ caprunning' = FALSE
    /\ opc' = "release"
    /\ UNCHANGED <<frame_queue, ppc, pframe, captured, pendingFrames, cpc, cframe,
                   newerQueued, detected, kpc, capreleased, crunning,
                   threadVars, guiVars, edgeVars, unitVars, pinchVars>>

\* ... then self.cap.release()
OptCloseRelease ==
    /\ opc = "release"
    /\ capreleased' = TRUE
    /\ opc' = "stop_processing"
    /\ UNCHANGED <<frame_queue, ppc, pframe, captured, pendingFrames, cpc, cframe,
                   newerQueued, detected, kpc, caprunning, crunning,
                   threadVars, guiVars, edgeVars, unitVars, pinchVars>>

\* processing_thread.stop(); event.accept()
OptCloseProcessing ==
    /\ opc = "stop_processing"
    /\ crunning' = FALSE
    /\ opc' = "closed"
    /\ UNCHANGED <<frame_queue, ppc, pframe, captured, pendingFrames, cpc, cframe,
                   newerQueued, detected, kpc, caprunning, capreleased,
                   threadVars, guiVars, edgeVars, unitVars, pinchVars>>

OptNext ==
    \/ CaptureTop \/ CaptureRead
    \/ add_frame \/ AddFrameFull \/ AddFrameGet \/ AddFramePut
    \/ ProcessTop \/ ProcessEmpty \/ ProcessGet \/ ProcessQsize \/ ProcessDetect
    \/ ProcessEmit
    \/ OptCloseStop \/ OptCloseRelease \/ OptCloseProcessing

OptInit == InitThreadIdle /\ InitGuiIdle /\ InitOpt /\ InitEdgeIdle /\ InitUnitIdle /\ InitPinchIdle

SpecOpt == OptInit /\ [][OptNext]_vars

\* ======================================================================
\* SpecEdge: one BinaryGesture fed a sequence of detector results
\* ======================================================================
\* BinaryGesture.__init__
InitEdge == old_state = FALSE /\ fed = <<>> /\ fired = <<>> /\ threw = <<>>

\* update(lmList) where the detector returns current_state and on_trigger,
\* when invoked, returns or raises.
EdgeUpdate ==
    /\ Len(fed) < MaxSeq
    /\ \E current_state \in BOOLEAN, trigger \in {Quiet, Raised} :
       \E r \in {BinaryGesture_update(old_state, current_state, trigger)} :
         /\ fed' = Append(fed, current_state)
         /\ fired' = IF r.called THEN Append(fired, Len(fed)) ELSE fired
         /\ threw' = IF r.raised THEN Append(threw, Len(fed)) ELSE threw
         /\ old_state' = r.old_state
    /\ UNCHANGED <<threadVars, guiVars, optVars, unitVars, pinchVars>>

EdgeInit == InitThreadIdle /\ InitGuiIdle /\ InitOptIdle /\ InitEdge /\ InitUnitIdle /\ InitPinchIdle

SpecEdge == EdgeInit /\ [][EdgeUpdate]_vars

\* ======================================================================
\* SpecUnit: the evaluators and the sink methods on enumerated inputs
\* ======================================================================
\* The landmark list of uHand = <<n, w, h>>.
UnitHand(n, w, h) == MakeHand(n, w, h, w \div 2, h \div 2)
UnitCounts == {0, 1, NumLandmarks - 1, NumLandmarks, NumLandmarks + 1}
UnitWidths == {0, 2, 3, 5, 40, 49, 50, 80, 300, 301}
UnitHeights == {0, 50, 100}
UnitFractions == {Float(0, 1), Float(1, 2), Float(7, 10), Float(1, 1)}
SinkMethods == {"send_stop", "send_volume", "send_octave", "send_modulation",
                "send_cc", "send_fist"}

InitUnit ==
    /\ uHand \in UnitCounts \X UnitWidths \X UnitHeights
    /\ uLm = UnitHand(uHand[1], uHand[2], uHand[3])
    /\ uConnected \in BOOLEAN
    /\ uCall = [fn |-> "none", value |-> None, called |-> FALSE, msgs |-> <<>>,
               raised |-> FALSE]

\* detector.lmList = uLm; detector.is_fist()
CallIsFist ==
    /\ uCall' = [fn |-> "is_fist", value |-> Bool(is_fist(uLm)), called |-> FALSE,
                 msgs |-> <<>>, raised |-> FALSE]
    /\ UNCHANGED <<uHand, uLm, uConnected, threadVars, guiVars, optVars, edgeVars, pinchVars>>

\* What calling an evaluator on its own did.
EvaluatorCall(fn, value) ==
    [fn |-> fn, value |-> value, called |-> FALSE, msgs |-> <<>>,
     raised |-> (value.tag = "raise")]

\* detector.lmList = uLm; detector.is_victory()
CallIsVictory ==
    /\ uCall' = EvaluatorCall("is_victory", is_victory(uLm))
    /\ UNCHANGED <<uHand, uLm, uConnected, threadVars, guiVars, optVars, edgeVars, pinchVars>>

\* detector.lmList = uLm; detector.is_thumbs_up()
CallIsThumbsUp ==
    /\ uCall' = EvaluatorCall("is_thumbs_up", is_thumbs_up(uLm))
    /\ UNCHANGED <<uHand, uLm, uConnected, threadVars, guiVars, optVars, edgeVars, pinchVars>>

\* detector.lmList = uLm; detector.get_bounding_box_volume()
CallBoundingBox ==
    /\ uCall' = EvaluatorCall("get_bounding_box_volume", get_bounding_box_volume(uLm))
    /\ UNCHANGED <<uHand, uLm, uConnected, threadVars, guiVars, optVars, edgeVars, pinchVars>>

\* pinch_func(uLm)
CallPinch ==
    /\ uCall' = EvaluatorCall("pinch_func", pinch_func(uLm))
    /\ UNCHANGED <<uHand, uLm, uConnected, threadVars, guiVars, optVars, edgeVars, pinchVars>>

\* A ContinuousGesture built by on_apply_gestures for a Bounding Box or Pinch
\* row (parameter Volume, channel 0), and its update(uLm).
CallContinuousUpdate ==
    /\ \E name \in {"Bounding Box", "Pinch"}, dev \in {"ok", "fail"} :
       \E g \in {Gesture(name, "Volume", 0)} :
       \E r \in {GestureUpdate(g, uLm, uConnected, dev, {FeedbackKey(g)})} :
         uCall' = [fn |-> "ContinuousGesture.update", value |-> r.value,
                   called |-> r.called, msgs |-> r.msgs, raised |-> r.raised]
    /\ UNCHANGED <<uHand, uLm, uConnected, threadVars, guiVars, optVars, edgeVars,
                   pinchVars>>

\* one method of the transmitter called with a fraction on channel 0
SinkCall(method, conn, fraction, dev) ==
    IF method = "send_stop" THEN send_stop(conn, dev)
    ELSE IF method = "send_volume" THEN send_volume(conn, fraction, 0, dev)
    ELSE IF method = "send_octave" THEN send_octave(conn, fraction, 0, dev)
    ELSE IF method = "send_modulation" THEN send_modulation(conn, fraction, 0, dev)
    ELSE IF method = "send_cc" THEN send_cc(conn, fraction, CCVolume, 0, dev)
    ELSE send_fist(conn, dev)

CallSink ==
    /\ \E method \in SinkMethods, fraction \in UnitFractions, dev \in {"ok", "fail"} :
       \E r \in {SinkCall(method, uConnected, fraction, dev)} :
         uCall' = [fn |-> method, value |-> fraction, called |-> FALSE,
                   msgs |-> r.msgs, raised |-> r.raised]
    /\ UNCHANGED <<uHand, uLm, uConnected, threadVars, guiVars, optVars, edgeVars, pinchVars>>

UnitNext ==
    \/ CallIsFist \/ CallIsVictory \/ CallIsThumbsUp \/ CallBoundingBox \/ CallPinch
    \/ CallContinuousUpdate \/ CallSink

UnitInit == InitThreadIdle /\ InitGuiIdle /\ InitOptIdle /\ InitEdgeIdle /\ InitUnit /\ InitPinchIdle

SpecUnit == UnitInit /\ [][UnitNext]_vars

\* ======================================================================
\* SpecPinch: pinch_func of one Pinch binding called frame after frame
\* ======================================================================
\* Thumb-index distances in pixels (the index tip straight right of the thumb
\* tip), on a hand whose bounding box stays 300 wide and 100 high.
PinchDists == {0, 10, 19, 20, 21, 22, 120, 219, 220, 221, 300}
PinchHand(d) == MakeHand(NumLandmarks, 300, 100, d, 0)

InitPinch == pinchCalls = <<>>

\* pinch_func(lmList) on the next frame; pinch_func keeps nothing between
\* calls, the record of the last two calls is kept here.
PinchReading ==
    /\ \E d \in PinchDists :
       \E call \in {[dist |-> d, value |-> pinch_func(PinchHand(d))]} :
         pinchCalls' = IF Len(pinchCalls) = 2 THEN <<pinchCalls[2], call>>
                       ELSE Append(pinchCalls, call)
    /\ UNCHANGED <<threadVars, guiVars, optVars, edgeVars, unitVars>>

PinchNext == PinchReading

PinchInit ==
    InitThreadIdle /\ InitGuiIdle /\ InitOptIdle /\ InitEdgeIdle /\ InitUnitIdle /\ InitPinch

SpecPinch == PinchInit /\ [][PinchNext]_vars

\* ======================================================================
\* Properties
\* ======================================================================

\* The updates (indexes from 0) whose detector result is a false->true
\* transition, the previous state before the first update counting as false.
RisingEdges(s) == {i \in 0..(Len(s) - 1) : s[i + 1] /\ (i = 0 \/ ~s[i])}
\* The updates that follow an update whose trigger raised.
AfterThrow == {i + 1 : i \in Elements(threw)}

\* C1 as stated: for every sequence of detector results fed to
\* BinaryGesture.update, the trigger is invoked exactly once for each
\* false->true transition and at no other update.
C1_OncePerRisingEdge ==
    /\ Elements(fired) = RisingEdges(fed)
    /\ Len(fired) = Cardinality(RisingEdges(fed))

\* C1 amended: the trigger is invoked exactly once at each update whose
\* result is true and whose previous update either had the result false (or
\* is the first) or had its trigger raise; with a trigger that never raises
\* that is once per false->true transition, and [false, true, true, false,
\* true] invokes it exactly twice, at index 1 and index 4.
C1_OncePerUnlatchedTrue ==
    /\ Elements(fired) =
         {i \in 0..(Len(fed) - 1) : fed[i + 1] /\ (i \in RisingEdges(fed) \/ i \in AfterThrow)}
    /\ Len(fired) = Cardinality(Elements(fired))
    /\ threw = <<>> => C1_OncePerRisingEdge
    /\ (threw = <<>> /\ fed = <<FALSE, TRUE, TRUE, FALSE, TRUE>>) => fired = <<1, 4>>

\* C1 witness: the sequence of the claim, fed with a trigger that returned.
C1_Witness ==
    fed = <<FALSE, TRUE, TRUE, FALSE, TRUE>> /\ threw = <<>> /\ fired = <<1, 4>>

\* C2: when update() is called with an empty landmark list, every detector
\* of the bindings on_apply_gestures builds returns None or False, no sink
\* callback is invoked, and nothing raises.
C2_NoHandNoDispatch ==
    lmList = <<>> =>
        /\ \A k \in 1..Len(updated) :
             /\ updated[k].value \in {None, Bool(FALSE)}
             /\ ~updated[k].raised
        /\ sinkCalls = <<>>
        /\ raisedBy \notin {"evaluator", "sink"}

\* C2 witness: a collection with the three gestures has been updated with an
\* empty landmark list.
C2_Witness ==
    /\ lmList = <<>> /\ tpc = "update" /\ gi > Len(colls[cur])
    /\ {colls[cur][k].name : k \in 1..Len(colls[cur])} = {"Bounding Box", "Pinch", "Fist"}
    /\ Len(updated) = Len(colls[cur])

\* C3 as stated: when a sink raised during update(), every binding of the
\* collection has still been evaluated in that frame.
C3_OthersStillEvaluated ==
    (tpc = "except" /\ raisedBy = "sink") => Len(updated) = Len(colls[cur])

\* C4: an exception in an iteration of run() never ends the thread: run()
\* returns only once the stop flag is set, and after an exception the loop
\* attempts another capture unless the stop flag has been set.
C4_ExceptionNeverHalts ==
    /\ [](tpc = "done" => ~running)
    /\ (tpc = "except") ~> (tpc = "read" \/ ~running)

\* C4 witness: a sink raised, and the loop is at its next cap.read().
C4_Witness == raisedBy = "sink" /\ tpc = "read" /\ running

\* C5 as stated: with the transmitter not connected, every sink method
\* returns without sending anything and without raising.
C5_DisconnectedSinksQuiet ==
    (uCall.fn \in SinkMethods /\ ~uConnected) => (uCall.msgs = <<>> /\ ~uCall.raised)

\* C6 as stated: add_frame never waits on the queue, neither in its get()
\* nor in its put().
C6_ProducerNeverWaits ==
    /\ ~(ppc = "get" /\ empty(frame_queue))
    /\ ~(ppc = "put" /\ full(frame_queue))

\* C7 as stated: run() runs detection only on a frame that had no newer frame
\* queued behind it when it was dequeued.
C7_DetectsNewest == cpc = "detect" => newerQueued = 0

\* C8: once stop() has set the flag, run() eventually returns; no new
\* capture/evaluate/dispatch cycle is begun after the flag is set (only the
\* one in progress is finished); and when run() has returned the handle
\* self.cap refers to has been released.
C8_StopExitsAndReleases ==
    /\ (~running) ~> (tpc = "done")
    /\ [][(~running /\ tpc' = "read") => tpc = "read"]_vars
    /\ [](tpc = "done" => cap \notin opened)

\* C8 witness: the window was closed while a cycle was in progress, that
\* cycle was finished, and run() has returned.
C8_Witness ==
    /\ ~running /\ tpc = "done" /\ gpc = "closed" /\ cap \notin opened
    /\ raisedBy = "none" /\ Len(updated) > 0

\* The bindings of the collection update() ran on that were updated in the
\* current frame, each as often as it was.
TimesUpdated(c, i) ==
    Cardinality({k \in 1..Len(updated) : updated[k].coll = c /\ updated[k].idx = i})
\* update() has been left, by returning or by raising.
UpdateLeft ==
    \/ tpc = "update" /\ gi > Len(colls[cur])
    \/ tpc = "except" /\ raisedBy \in {"evaluator", "sink"}

\* C9 as stated: the bindings evaluated in one frame all belong to one
\* collection, and every binding of that collection is updated exactly once
\* for the frame.
C9_OneCollectionEachOnce ==
    UpdateLeft =>
        /\ \A k \in 1..Len(updated) : updated[k].coll = cur
        /\ \A i \in 1..Len(colls[cur]) : TimesUpdated(cur, i) = 1

\* The part of C9 the code keeps: the bindings evaluated in one frame belong
\* to the one collection update() was called on, each at most once.
SingleCollectionPerFrame ==
    tpc \in {"update", "except"} /\ cur # 0 =>
        /\ \A k \in 1..Len(updated) : updated[k].coll = cur
        /\ \A i \in 1..Len(colls[cur]) : TimesUpdated(cur, i) <= 1

\* C10: is_fist is true iff the list has at least 21 landmarks and its
\* bounding box is strictly narrower than half its height; width 40% of the
\* height gives true, width 80% gives false.
C10_FistIffNarrow ==
    uCall.fn = "is_fist" =>
        /\ uCall.value.b = (uHand[1] >= 21 /\ 2 * uHand[2] < uHand[3])
        /\ uHand = <<21, 40, 100>> => uCall.value.b
        /\ uHand = <<21, 80, 100>> => ~uCall.value.b

\* C10 witness: a 21-point hand 40 wide and 100 high was judged a fist.
C10_Witness == uCall.fn = "is_fist" /\ uHand = <<21, 40, 100>> /\ uCall.value.b

\* C11 as stated: on a 21-point landmark list is_victory returns a boolean
\* without raising, true exactly when index and middle tips are above their
\* joints and ring and pinky tips below theirs; is_thumbs_up returns a
\* boolean, true exactly when the thumb tip is above the wrist and the other
\* four fingers are folded.
C11_PatternMatchesTable ==
    /\ (uCall.fn = "is_victory" /\ uHand[1] = 21) =>
         /\ uCall.value.tag = "bool" /\ ~uCall.raised
         /\ uCall.value.b = (/\ TipAbove(uLm, 8) /\ TipAbove(uLm, 12)
                              /\ TipBelow(uLm, 16) /\ TipBelow(uLm, 20))
    /\ (uCall.fn = "is_thumbs_up" /\ uHand[1] = 21) =>
         /\ uCall.value.tag = "bool" /\ ~uCall.raised
         /\ uCall.value.b = (/\ uLm[5][3] < uLm[1][3]
                              /\ \A tip \in {8, 12, 16, 20} : TipBelow(uLm, tip))

\* C12 as stated: on a landmark list of 1 to 20 points the discrete
\* evaluators return False and the continuous evaluators return None, none
\* of them raising.
C12_PartialHandNoSignal ==
    uHand[1] \in 1..20 =>
        /\ uCall.fn \in {"is_fist", "is_victory", "is_thumbs_up"} =>
              (uCall.value = Bool(FALSE) /\ ~uCall.raised)
        /\ uCall.fn \in {"get_bounding_box_volume", "pinch_func"} =>
              (uCall.value = None /\ ~uCall.raised)

\* C13 as stated: pinch_func clamps the thumb-index distance into
\* [min_dist, max_dist] and rescales it linearly onto [0, 1]: below min_dist
\* it yields 0, above max_dist it yields 1, in between (d - min_dist) /
\* (max_dist - min_dist); over two calls on a hand of the same width the
\* output does not decrease when the distance does not.
C13_PinchClampedLinear ==
    /\ \A k \in 1..Len(pinchCalls) :
         LET d == pinchCalls[k].dist
             v == pinchCalls[k].value
         IN /\ v.tag = "float"
            /\ d < MinDist => v.num = 0
            /\ d > MaxDist => v.num = v.den
            /\ (MinDist <= d /\ d <= MaxDist) =>
                  v.num * (MaxDist - MinDist) = (d - MinDist) * v.den
    /\ Len(pinchCalls) = 2 =>
         LET a == pinchCalls[1]
             b == pinchCalls[2]
         IN a.dist <= b.dist => a.value.num * b.value.den <= b.value.num * a.value.den

\* C14 as stated: when two consecutive readings of the binding differ in
\* normalized value by less than the hysteresis threshold (taken as 0.01, two
\* pixels of the 200-pixel range), the second call returns the output of the
\* first.
C14_HysteresisHoldsOutput ==
    Len(pinchCalls) = 2 =>
        LET a == pinchCalls[1].value
            b == pinchCalls[2].value
            diff == a.num * b.den - b.num * a.den
        IN (/\ a.tag = "float" /\ b.tag = "float"
            /\ 100 * diff < a.den * b.den /\ -100 * diff < a.den * b.den)
           => b = a

\* C15 as stated: a continuous gesture's sink (Bounding Box, Pinch) is invoked
\* in a frame only if the pinky is folded in that frame's landmark list.
C15_GateFingerSuppresses ==
    (tpc \in {"update", "except"} /\ cur # 0) =>
        \A k \in 1..Len(sinkCalls) :
            colls[cur][sinkCalls[k].idx].name \in {"Bounding Box", "Pinch"}
                => ~TipAbove(lmList, 20)

\* C16 as stated: for a value v in [0, 1] the control-change value send_cc
\* and send_volume send is round(v * 127), the nearest integer, within 0..127.
C16_CCValueRounded ==
    (uCall.fn \in {"send_cc", "send_volume"} /\ uCall.msgs # <<>>) =>
        /\ uCall.msgs[1].value \in 0..127
        /\ uCall.msgs[1].value =
             (2 * uCall.value.num * 127 + uCall.value.den) \div (2 * uCall.value.den)

\* The landmark lists of SpecUnit whose bounding box is as wide and as high
\* as asked for (four points or more), and the area of that box.
BoxedHands == {u \in UnitCounts \X UnitWidths \X UnitHeights : u[1] >= 4}
BoxArea(u) == u[2] * u[3]

\* C17 as stated: get_bounding_box_volume returns None for an area outside
\* [min_area, max_area]; for an area inside it returns the linear rescaling of
\* that band onto [0, 1] (min_area gives 0, max_area gives 1), and no other
\* accepted area gives the same output.
C17_AreaBandRescaled ==
    (uCall.fn = "get_bounding_box_volume" /\ uHand \in BoxedHands) =>
        LET area == BoxArea(uHand)
            v == uCall.value
        IN IF area < MinArea \/ area > MaxArea THEN v = None
           ELSE /\ v.tag = "float" /\ 0 <= v.num /\ v.num <= v.den
                /\ v.num * (MaxArea - MinArea) = (area - MinArea) * v.den
                /\ \A u \in BoxedHands :
                     (BoxArea(u) # area /\ BoxArea(u) >= MinArea /\ BoxArea(u) <= MaxArea)
                        => get_bounding_box_volume(UnitHand(u[1], u[2], u[3])) # v

\* The rows of a settings list whose active flag is set, in order.
ActiveRows(settings_list) == SelectSeq(settings_list, LAMBDA row : row.active)
\* The gesture object is the binding of this row.
BindingOf(g, row) ==
    g.name = row.gesture /\ g.param = row.midi_param /\ g.channel = row.channel
\* The rows that are inactive in a settings list the user applies.
InactiveRows ==
    UNION {{s[k] : k \in {j \in 1..Len(s) : ~s[j].active}} : s \in SettingsChoices}

\* C18: the collection on_apply_gestures builds holds the bindings of the
\* active rows of the applied settings and no other, that collection is the
\* one installed, and in no frame is a binding of an inactive row evaluated
\* or its sink invoked.
C18_InactiveNeverEvaluated ==
    /\ [][(gpc = "apply_build" /\ gpc' = "apply_set") =>
            /\ Len(colls'[collection']) = Len(ActiveRows(pendingSettings))
            /\ \A k \in 1..Len(colls'[collection']) :
                 BindingOf(colls'[collection'][k], ActiveRows(pendingSettings)[k])]_vars
    /\ [][(gpc = "apply_set" /\ gpc' = "idle") =>
            /\ gesture_collection' = collection
            /\ colls'[gesture_collection'] = colls[collection]]_vars
    /\ []((tpc \in {"update", "except"} /\ cur # 0) =>
            /\ \A k \in 1..Len(updated) : \A row \in InactiveRows :
                 ~BindingOf(colls[cur][updated[k].idx], row)
            /\ \A k \in 1..Len(sinkCalls) : \A row \in InactiveRows :
                 ~BindingOf(colls[cur][sinkCalls[k].idx], row))

\* C18 witness: the settings with the inactive Bounding Box row are applied,
\* and a frame with a hand has been evaluated on their collection: the Fist
\* binding alone was updated.
C18_Witness ==
    /\ tpc = "update" /\ cur = gesture_collection /\ gi > Len(colls[cur])
    /\ Len(colls[cur]) = 1 /\ colls[cur][1].name = "Fist"
    /\ lmList = OpenHand /\ Len(updated) = 1

\* C19: ContinuousGesture.update invokes the sink when and only when the
\* detector's value is not None, the value 0 included; invoked on a connected
\* port that accepts the message, the sink sends one control change carrying
\* that value; not invoked, nothing is sent and nothing raises.
C19_DispatchUnlessNone ==
    uCall.fn = "ContinuousGesture.update" =>
        /\ uCall.called = (uCall.value # None)
        /\ (uCall.called /\ uConnected /\ ~uCall.raised) =>
              uCall.msgs = <<Message("control_change", CCVolume, 0, ToMidi(uCall.value))>>
        /\ ~uCall.called => (uCall.msgs = <<>> /\ ~uCall.raised)

\* C19 witness: the detector returned 0.0 and the sink sent it.
C19_Witness ==
    /\ uCall.fn = "ContinuousGesture.update" /\ uCall.value.tag = "float"
    /\ uCall.value.num = 0 /\ uCall.called /\ Len(uCall.msgs) = 1
    /\ uCall.msgs[1].value = 0

\* C20: when the trigger of a BinaryGesture raises on a rising edge the edge
\* is not latched (old_state stays False), so the trigger is invoked again at
\* the next update if the gesture is still detected there; after an
\* invocation that returned, the trigger is not invoked at the next update
\* while the gesture stays detected.
C20_RetryUntilTriggerReturns ==
    /\ (Len(fed) > 0 /\ (Len(fed) - 1) \in Elements(threw)) => ~old_state
    /\ \A i \in Elements(threw) :
         (i + 1 < Len(fed) /\ fed[i + 2]) => (i + 1) \in Elements(fired)
    /\ \A i \in Elements(fired) \ Elements(threw) :
         (i + 1 < Len(fed) /\ fed[i + 2]) => (i + 1) \notin Elements(fired)

\* C20 witness: the gesture is held over three updates, the trigger raises at
\* the first, is invoked again and returns at the second, and is not invoked
\* at the third.
C20_Witness ==
    fed = <<TRUE, TRUE, TRUE>> /\ threw = <<0>> /\ fired = <<0, 1>> /\ old_state

\* C21 as stated: when a sink callback raised during a frame, run() still
\* emits that frame before the iteration ends, and the camera handle is
\* neither released nor re-opened because of it (only the release after the
\* loop, once stop() was called, touches it).
C21_SinkFailureKeepsFrame ==
    /\ []((raisedBy = "sink" /\ tpc \in {"top", "read", "final", "done"}) => emitted)
    /\ [][(raisedBy = "sink" /\ tpc # "final") => (cap' = cap /\ opened' = opened)]_vars

\* The queue never holds more than two frames, and the get() of add_frame
\* takes out the oldest queued frame (frames are numbered as captured).
QueueBoundedDropOldest ==
    /\ [](Len(frame_queue) <= 2)
    /\ [][(ppc = "get" /\ ppc' = "put") =>
            /\ frame_queue # <<>> /\ frame_queue' = Tail(frame_queue)
            /\ \A k \in 1..Len(frame_queue) : frame_queue[1] <= frame_queue[k]]_vars

C24_NoReadAfterRelease ==
    [][(kpc = "read" /\ kpc' = "top") => ~capreleased]_vars

\* C25: HandTrackingThread never leaks a camera handle: at most one opened
\* handle is unreleased at any time, and none is unreleased once run() has
\* returned.
C25_NoCameraHandleLeak ==
    /\ Cardinality(opened) <= 1
    /\ (tpc = "done" => opened = {})
====
